---- MODULE Spec2Model ----
(***************************************************************************)
(* A model of the autocomplete engine (autocomplete.py), of its            *)
(* initialization (initialize.py) and of the interactive loop (main.py).   *)
(*                                                                         *)
(* A string is a sequence of one-character strings: <<"a", "b">> is "ab".  *)
(***************************************************************************)
EXTENDS Integers, Sequences, FiniteSets, TLC

\* ------------------------------------------------------------------------
\* Bounds of the model
\* ------------------------------------------------------------------------

\* The number of directory entries os.walk yields in one build.
MaxFiles == 2

\* The number of characters the interactive buffer may hold.
MaxBuffer == 3

\* The longest string handed to single_edit_match_info under SpecMatch.
MaxStr == 3

\* ------------------------------------------------------------------------
\* Characters and strings
\* ------------------------------------------------------------------------

\* The code point of a character: Python compares strings by code point.
Code(c) ==
    CASE c = " " -> 32
      [] c = "," -> 44
      [] c = "." -> 46
      [] c = "A" -> 65
      [] c = "B" -> 66
      [] c = "T" -> 84
      [] c = "X" -> 88
      [] c = "a" -> 97
      [] c = "b" -> 98
      [] c = "c" -> 99
      [] c = "d" -> 100
      [] c = "o" -> 111
      [] c = "s" -> 115
      [] c = "t" -> 116
      [] c = "v" -> 118
      [] c = "x" -> 120
      [] OTHER -> 0

\* string.punctuation, as far as the model's characters go.
Punctuation == {",", "."}

\* The characters str.split() and str.strip() treat as whitespace.
Whitespace == {" "}

\* str.lower() on one character.
LowerChar(c) ==
    CASE c = "A" -> "a"
      [] c = "B" -> "b"
      [] c = "T" -> "t"
      [] c = "X" -> "x"
      [] OTHER -> c

\* str.lower()
Lower(s) == [i \in 1..Len(s) |-> LowerChar(s[i])]

\* Python's s[from:to] with 0-based bounds, clamped to the string.
Slice(s, from, to) ==
    LET f == IF from < 0 THEN 0 ELSE from
        t == IF to > Len(s) THEN Len(s) ELSE to
    IN  IF f >= t THEN <<>> ELSE SubSeq(s, f + 1, t)

\* Python's s[from:]
SliceFrom(s, from) == Slice(s, from, Len(s))

\* Python's s < t on strings: lexicographic by code point.
RECURSIVE StrLess(_, _)
StrLess(s, t) ==
    IF t = <<>> THEN FALSE
    ELSE IF s = <<>> THEN TRUE
    ELSE IF Code(Head(s)) # Code(Head(t)) THEN Code(Head(s)) < Code(Head(t))
    ELSE StrLess(Tail(s), Tail(t))

\* str.translate(_PUNCT_TABLE): the punctuation characters are deleted.
StripPunct(s) == SelectSeq(s, LAMBDA c : c \notin Punctuation)

\* str.split(): the maximal runs of non-whitespace characters, in order.
RECURSIVE SplitFrom(_, _, _)
SplitFrom(s, i, word) ==
    IF i > Len(s) THEN (IF word = <<>> THEN <<>> ELSE <<word>>)
    ELSE IF s[i] \in Whitespace
         THEN (IF word = <<>> THEN <<>> ELSE <<word>>) \o SplitFrom(s, i + 1, <<>>)
         ELSE SplitFrom(s, i + 1, Append(word, s[i]))

Split(s) == SplitFrom(s, 1, <<>>)

\* " ".join(words)
RECURSIVE Join(_)
Join(words) ==
    IF words = <<>> THEN <<>>
    ELSE IF Len(words) = 1 THEN words[1]
    ELSE words[1] \o <<" ">> \o Join(Tail(words))

\* str.strip(): leading and trailing whitespace removed.
RECURSIVE LStrip(_)
LStrip(s) ==
    IF s # <<>> /\ Head(s) \in Whitespace THEN LStrip(Tail(s)) ELSE s

RECURSIVE RStrip(_)
RStrip(s) ==
    IF s # <<>> /\ s[Len(s)] \in Whitespace
    THEN RStrip(SubSeq(s, 1, Len(s) - 1)) ELSE s

Strip(s) == RStrip(LStrip(s))

\* normalize_text
normalize_text(s) == Join(Split(Lower(StripPunct(s))))

\* ------------------------------------------------------------------------
\* Penalties and the single-edit matcher
\* ------------------------------------------------------------------------

_SUB_PENALTIES == <<5, 4, 3, 2, 1>>
_INSDEL_PENALTIES == <<10, 8, 6, 4, 2>>

\* table[idx] if idx < len(table) else table[-1], idx being 0-based.
TableAt(table, idx) ==
    IF idx < Len(table) THEN table[idx + 1] ELSE table[Len(table)]

\* penalty_for with the two tables taken for one another.
penalty_for_swapped(kind, pos) ==
    LET idx == pos - 1
    IN  IF kind = "substitution" THEN TableAt(_INSDEL_PENALTIES, idx)
        ELSE IF kind \in {"insertion", "deletion"} THEN TableAt(_SUB_PENALTIES, idx)
        ELSE 0

\* penalty_for
penalty_for(kind, pos) ==
    LET idx == pos - 1
    IN  IF kind = "substitution" THEN TableAt(_SUB_PENALTIES, idx)
        ELSE IF kind \in {"insertion", "deletion"} THEN TableAt(_INSDEL_PENALTIES, idx)
        ELSE 0

\* The value None of single_edit_match_info.
None == <<>>

\* CommonPrefix whose loop stops at the first character.
CommonPrefixStopsAtOnce(prefix, candidate, i, limit) ==
    IF i < limit /\ prefix[i + 1] = candidate[i + 1] THEN i + 1 ELSE i

\* The while loops of single_edit_match_info: the first i >= start, below
\* limit, where the two strings differ (0-based), or limit.
RECURSIVE CommonPrefix(_, _, _, _)
CommonPrefix(prefix, candidate, i, limit) ==
    IF i < limit /\ prefix[i + 1] = candidate[i + 1]
    THEN CommonPrefix(prefix, candidate, i + 1, limit)
    ELSE i

\* single_edit_match_info
single_edit_match_info(prefix, candidate) ==
    LET lp == Len(prefix)
        lc == Len(candidate)
    IN  IF prefix = candidate THEN <<"exact", 0>>
        ELSE IF lp - lc > 1 \/ lc - lp > 1 THEN None
        ELSE IF lp = lc THEN
            LET diffs == SelectSeq([i \in 1..lp |-> i - 1],
                                   LAMBDA i : prefix[i + 1] # candidate[i + 1])
            IN  IF Len(diffs) = 1 THEN <<"substitution", diffs[1] + 1>> ELSE None
        ELSE IF lp + 1 = lc THEN
            LET i == CommonPrefix(prefix, candidate, 0, lp)
            IN  IF SliceFrom(prefix, i) = SliceFrom(candidate, i + 1)
                THEN <<"insertion", i + 1>> ELSE None
        ELSE IF lp = lc + 1 THEN
            LET i == CommonPrefix(prefix, candidate, 0, lc)
            IN  IF SliceFrom(prefix, i + 1) = SliceFrom(candidate, i)
                THEN <<"deletion", i + 1>> ELSE None
        ELSE None

\* ------------------------------------------------------------------------
\* AutoCompleteSystem: the corpus store and the index
\* ------------------------------------------------------------------------

\* AutoCompleteSystem.__init__: no sentence, an empty dictionary.
NewSystem == [sentences |-> <<>>, word_index |-> <<>>]

\* The substring length the index uses for words of three characters and more.
length == 3

\* dict.get(key, [])
Lookup(word_index, key) ==
    IF key \in DOMAIN word_index THEN word_index[key] ELSE <<>>

\* dict.setdefault(key, []).append(idx)
SetDefaultAppend(word_index, key, idx) ==
    IF key \in DOMAIN word_index
    THEN [word_index EXCEPT ![key] = Append(@, idx)]
    ELSE [k \in DOMAIN word_index \cup {key} |->
            IF k = key THEN <<idx>> ELSE word_index[k]]

\* A loop over range(len(w) - length): the last window of w is left out.
RECURSIVE IndexSubstringsShort(_, _, _, _)
IndexSubstringsShort(word_index, w, j, idx) ==
    IF j >= Len(w) - 3 THEN word_index
    ELSE IndexSubstringsShort(SetDefaultAppend(word_index, Slice(w, j, j + 3), idx),
                              w, j + 1, idx)

\* for j in range(len(w) - length + 1): the windows of w, from window j on.
RECURSIVE IndexSubstrings(_, _, _, _)
IndexSubstrings(word_index, w, j, idx) ==
    IF j >= Len(w) - length + 1 THEN word_index
    ELSE IndexSubstrings(SetDefaultAppend(word_index, Slice(w, j, j + length), idx),
                         w, j + 1, idx)

\* The body of "for w in words": a word of one or two characters is stored
\* whole, a longer one by its substrings of three characters.
IndexWord(word_index, w, idx) ==
    IF Len(w) \in {1, 2} THEN SetDefaultAppend(word_index, w, idx)
    ELSE IF Len(w) >= length THEN IndexSubstrings(word_index, w, 0, idx)
    ELSE word_index

\* for w in words
RECURSIVE IndexWords(_, _, _)
IndexWords(word_index, words, idx) ==
    IF words = <<>> THEN word_index
    ELSE IndexWords(IndexWord(word_index, Head(words), idx), Tail(words), idx)

\* The body of "for i, line in enumerate(f)" in build_from_folder: a line
\* that is empty once stripped is passed over, any other is stored under
\* the next id and indexed.
ProcessLine(sys, line, fullpath, i) ==
    LET line_stripped == Strip(line)
        idx == Len(sys.sentences)
    IN  IF line_stripped = <<>> THEN sys
        ELSE [sentences |-> Append(sys.sentences, <<line_stripped, fullpath, i>>),
              word_index |-> IndexWords(sys.word_index,
                                        Split(normalize_text(line_stripped)), idx)]

\* fname.lower().endswith('.txt')
IsTextFile(fname) ==
    LET low == Lower(fname)
    IN  SliceFrom(low, Len(low) - 4) = <<".", "t", "x", "t">> /\ Len(low) >= 4

\* ------------------------------------------------------------------------
\* get_best_k_completions
\* ------------------------------------------------------------------------

\* The number of completions get_best_k_completions returns at most.
K == 5

\* AutoCompleteData
AutoCompleteData(sentence, src, offset, score) ==
    [completed_sentence |-> sentence, source_text |-> src,
     offset |-> offset, score |-> score]

\* "prefix_norm in sentence_norm": Python's substring test.
Contains(sub, s) ==
    \E start \in 0..(Len(s) - Len(sub)) : Slice(s, start, start + Len(sub)) = sub

\* for start in range(len(sentence_norm) - L + 1): the first window of L
\* characters, from start on, that is one edit away from the prefix; the
\* matcher's (kind, pos) for it, or None when the range ends without one.
RECURSIVE ScanWindows(_, _, _, _)
ScanWindows(prefix_norm, sentence_norm, L, start) ==
    IF start >= Len(sentence_norm) - L + 1 THEN None
    ELSE LET sub == Slice(sentence_norm, start, start + L)
             info == single_edit_match_info(prefix_norm, sub)
         IN  IF info # None /\ info[1] # "exact" THEN info
             ELSE ScanWindows(prefix_norm, sentence_norm, L, start + 1)

\* A scan whose base score is lp, not 2 * lp.
RECURSIVE ScanLengthsBaseLp(_, _, _, _)
ScanLengthsBaseLp(prefix_norm, sentence_norm, lengths, k) ==
    IF k > Len(lengths) THEN [found |-> FALSE, score |-> 0, consulted |-> FALSE]
    ELSE LET L == lengths[k]
         IN  IF L <= 0 \/ L > Len(sentence_norm)
             THEN ScanLengthsBaseLp(prefix_norm, sentence_norm, lengths, k + 1)
             ELSE LET info == ScanWindows(prefix_norm, sentence_norm, L, 0)
                  IN  IF info # None
                      THEN [found |-> TRUE,
                            score |-> Len(prefix_norm) - penalty_for(info[1], info[2]),
                            consulted |-> TRUE]
                      ELSE [ScanLengthsBaseLp(prefix_norm, sentence_norm, lengths, k + 1)
                              EXCEPT !.consulted = TRUE]

\* for L in {lp, lp + 1, lp - 1}: the set's elements in the order the
\* iteration yields them, from the k-th on. found: a result is appended;
\* consulted: single_edit_match_info was called.
RECURSIVE ScanLengths(_, _, _, _)
ScanLengths(prefix_norm, sentence_norm, lengths, k) ==
    IF k > Len(lengths) THEN [found |-> FALSE, score |-> 0, consulted |-> FALSE]
    ELSE LET L == lengths[k]
         IN  IF L <= 0 \/ L > Len(sentence_norm)
             THEN ScanLengths(prefix_norm, sentence_norm, lengths, k + 1)
             ELSE LET info == ScanWindows(prefix_norm, sentence_norm, L, 0)
                  IN  IF info # None
                      THEN [found |-> TRUE,
                            score |-> 2 * Len(prefix_norm) - penalty_for(info[1], info[2]),
                            consulted |-> TRUE]
                      ELSE [ScanLengths(prefix_norm, sentence_norm, lengths, k + 1)
                              EXCEPT !.consulted = TRUE]

\* The body of "for idx in candidate_idxs": containment first, the fuzzy
\* scan otherwise.
ScoreSentence(prefix_norm, sentence_norm, lengths) ==
    IF Contains(prefix_norm, sentence_norm)
    THEN [found |-> TRUE, score |-> 2 * Len(prefix_norm), consulted |-> FALSE]
    ELSE ScanLengths(prefix_norm, sentence_norm, lengths, 1)

\* CandidateSet without the fallback for a first word of one or two
\* characters.
CandidateSetShortNoFallback(sys, first_word) ==
    LET all == 0..(Len(sys.sentences) - 1)
        Ids(indices) == {indices[n] : n \in 1..Len(indices)}
    IN  IF Len(first_word) \in {1, 2} THEN Ids(Lookup(sys.word_index, first_word))
        ELSE
            LET found == IF Len(first_word) >= 3
                         THEN Ids(Lookup(sys.word_index, Slice(first_word, 0, 3)))
                         ELSE {}
            IN  IF found = {} THEN all ELSE found

\* CandidateSet without the fallback for a first word of three characters
\* and more.
CandidateSetNoFallback(sys, first_word) ==
    LET all == 0..(Len(sys.sentences) - 1)
        Ids(indices) == {indices[n] : n \in 1..Len(indices)}
    IN  IF Len(first_word) \in {1, 2} THEN
            LET indices == Lookup(sys.word_index, first_word)
            IN  IF indices # <<>> THEN Ids(indices) ELSE all
        ELSE Ids(Lookup(sys.word_index, Slice(first_word, 0, 3)))

\* The candidate ids of a query: a word of one or two characters is looked
\* up whole, a longer one by its first three characters; every sentence is a
\* candidate when the lookup finds nothing.
CandidateSet(sys, first_word) ==
    LET all == 0..(Len(sys.sentences) - 1)
        Ids(indices) == {indices[n] : n \in 1..Len(indices)}
    IN  IF Len(first_word) \in {1, 2} THEN
            LET indices == Lookup(sys.word_index, first_word)
            IN  IF indices # <<>> THEN Ids(indices) ELSE all
        ELSE
            LET found == IF Len(first_word) >= 3
                         THEN Ids(Lookup(sys.word_index, Slice(first_word, 0, 3)))
                         ELSE {}
            IN  IF found = {} THEN all ELSE found

\* The elements of a finite set of integers in ascending order.
RECURSIVE Ascending(_)
Ascending(S) ==
    IF S = {} THEN <<>>
    ELSE LET m == CHOOSE x \in S : \A y \in S : x <= y
         IN  <<m>> \o Ascending(S \ {m})

Reverse(s) == [i \in 1..Len(s) |-> s[Len(s) + 1 - i]]

\* list(candidate_idxs): the order in which a set yields its elements is
\* the interpreter's; order.reversed tells the ascending from the descending.
CandidateList(S, order) ==
    IF order.reversed THEN Reverse(Ascending(S)) ELSE Ascending(S)

\* The elements of {lp, lp + 1, lp - 1} in the order the interpreter yields
\* them: order.lengths is a permutation of the offsets 0, 1, -1.
LengthList(lp, order) == [k \in 1..3 |-> lp + order.lengths[k]]

\* for idx in candidate_idxs: the results appended, from the n-th candidate on.
RECURSIVE ScoreCandidates(_, _, _, _, _)
ScoreCandidates(sys, prefix_norm, candidate_idxs, lengths, n) ==
    IF n > Len(candidate_idxs) THEN <<>>
    ELSE LET s == sys.sentences[candidate_idxs[n] + 1]
             r == ScoreSentence(prefix_norm, normalize_text(s[1]), lengths)
             rest == ScoreCandidates(sys, prefix_norm, candidate_idxs, lengths, n + 1)
         IN  IF r.found THEN <<AutoCompleteData(s[1], s[2], s[3], r.score)>> \o rest
             ELSE rest

\* The ids for which single_edit_match_info was called.
Consulted(sys, prefix_norm, candidate_idxs, lengths) ==
    {candidate_idxs[n] : n \in
        {m \in 1..Len(candidate_idxs) :
            ScoreSentence(prefix_norm,
                          normalize_text(sys.sentences[candidate_idxs[m] + 1][1]),
                          lengths).consulted}}

\* KeyLess with the key cut to -x.score: ties keep the order of the candidates.
KeyLessScoreOnly(x, y) == -x.score < -y.score

\* The sort key (-x.score, x.completed_sentence.lower()) of x is less than y's.
KeyLess(x, y) ==
    \/ -x.score < -y.score
    \/ /\ x.score = y.score
       /\ StrLess(Lower(x.completed_sentence), Lower(y.completed_sentence))

\* x put into a sorted list behind every element whose key is not greater.
RECURSIVE InsertByKey(_, _)
InsertByKey(sorted, x) ==
    IF sorted = <<>> THEN <<x>>
    ELSE IF KeyLess(x, Head(sorted)) THEN <<x>> \o sorted
    ELSE <<Head(sorted)>> \o InsertByKey(Tail(sorted), x)

\* list.sort(key=...): a stable sort, elements of equal key keep their order.
RECURSIVE SortByKey(_)
SortByKey(results) ==
    IF results = <<>> THEN <<>>
    ELSE InsertByKey(SortByKey(SubSeq(results, 1, Len(results) - 1)),
                     results[Len(results)])

\* Deduplicate without the test "key not in seen".
RECURSIVE DeduplicateKeepsAll(_, _, _, _)
DeduplicateKeepsAll(results, n, seen, final_results) ==
    IF n > Len(results) THEN final_results
    ELSE LET kept == Append(final_results, results[n])
         IN  IF Len(kept) >= K THEN kept
             ELSE DeduplicateKeepsAll(results, n + 1, seen, kept)

\* The last loop of get_best_k_completions, from the n-th result on: a
\* result whose text was seen is passed over, and the loop ends once K
\* results are kept.
RECURSIVE Deduplicate(_, _, _, _)
Deduplicate(results, n, seen, final_results) ==
    IF n > Len(results) THEN final_results
    ELSE LET r == results[n]
             key == r.completed_sentence
             kept == IF key \notin seen THEN Append(final_results, r) ELSE final_results
         IN  IF Len(kept) >= K THEN kept
             ELSE Deduplicate(results, n + 1, seen \cup {key}, kept)

\* get_best_k_completions, with its local variables: prefix_norm,
\* candidate_idxs, results (before the sort) and the list it returns.
get_best_k_completions(sys, prefix, order) ==
    LET prefix_norm == normalize_text(prefix)
    IN  IF prefix_norm = <<>>
        THEN [prefix_norm |-> prefix_norm, candidate_idxs |-> <<>>,
              results |-> <<>>, consulted |-> {}, returned |-> <<>>]
        ELSE LET lp == Len(prefix_norm)
                 first_word == Split(prefix_norm)[1]
                 candidate_idxs == CandidateList(CandidateSet(sys, first_word), order)
                 lengths == LengthList(lp, order)
                 results == ScoreCandidates(sys, prefix_norm, candidate_idxs, lengths, 1)
             IN  [prefix_norm |-> prefix_norm,
                  candidate_idxs |-> candidate_idxs,
                  results |-> results,
                  consulted |-> Consulted(sys, prefix_norm, candidate_idxs, lengths),
                  returned |-> Deduplicate(SortByKey(results), 1, {}, <<>>)]

\* ------------------------------------------------------------------------
\* build_from_folder
\* ------------------------------------------------------------------------

\* os.path.join(dirpath, fname)
FullPath(dirpath, fname) == <<dirpath, fname>>

\* "for i, line in enumerate(f)", from line i on: the lines read before the
\* one whose decoding raises are processed, the exception ends the loop.
RECURSIVE ReadLines(_, _, _)
ReadLines(sys, entry, i) ==
    IF i >= Len(entry.lines) THEN sys
    ELSE IF entry.error.kind = "read" /\ entry.error.at = i THEN sys
    ELSE ReadLines(ProcessLine(sys, entry.lines[i + 1],
                               FullPath(entry.dirpath, entry.fname), i),
                   entry, i + 1)

\* The body of "for fname in filenames": a file that is no .txt is passed
\* over; an exception raised by open() or while reading is caught.
ReadFile(sys, entry) ==
    IF ~IsTextFile(entry.fname) THEN sys
    ELSE IF entry.error.kind = "open" THEN sys
    ELSE ReadLines(sys, entry, 0)

\* The "except Exception" branch is taken: a warning names the file.
Warned(entry) == IsTextFile(entry.fname) /\ entry.error.kind # "ok"

\* build_from_folder: the files os.walk yields, in its order.
RECURSIVE build_from_folder(_, _)
build_from_folder(sys, entries) ==
    IF entries = <<>> THEN sys
    ELSE build_from_folder(ReadFile(sys, Head(entries)), Tail(entries))

\* The paths the warnings of a build name.
Warnings(entries) ==
    {FullPath(entries[n].dirpath, entries[n].fname) :
        n \in {m \in 1..Len(entries) : Warned(entries[m])}}

\* ------------------------------------------------------------------------
\* save_cache and load_cache
\* ------------------------------------------------------------------------

\* The elements of a finite set as a sequence.
RECURSIVE SeqOfSet(_)
SeqOfSet(S) ==
    IF S = {} THEN <<>>
    ELSE LET x == CHOOSE y \in S : TRUE
         IN  <<x>> \o SeqOfSet(S \ {x})

RECURSIVE DumpItems(_, _)
DumpItems(word_index, keys) ==
    IF keys = <<>> THEN <<>>
    ELSE <<[op |-> "KEY", arg |-> Head(keys)],
           [op |-> "VALUE", arg |-> word_index[Head(keys)]]>>
         \o DumpItems(word_index, Tail(keys))

\* pickle.dump((self.sentences, self.word_index), f): the list's length and
\* items, then the dictionary's size and its key/value pairs, then STOP.
PickleDump(sys) ==
    <<[op |-> "LIST", arg |-> Len(sys.sentences)]>>
    \o [n \in 1..Len(sys.sentences) |-> [op |-> "ITEM", arg |-> sys.sentences[n]]]
    \o <<[op |-> "DICT", arg |-> Cardinality(DOMAIN sys.word_index)]>>
    \o DumpItems(sys.word_index, SeqOfSet(DOMAIN sys.word_index))
    \o <<[op |-> "STOP", arg |-> 0]>>

\* The stream is one PickleDump wrote: pickle.load raises on any other.
WellFormed(stream) ==
    /\ Len(stream) >= 3
    /\ stream[1].op = "LIST"
    /\ LET n == stream[1].arg
       IN  /\ Len(stream) >= n + 3
           /\ \A k \in 2..(n + 1) : stream[k].op = "ITEM"
           /\ stream[n + 2].op = "DICT"
           /\ LET m == stream[n + 2].arg
              IN  /\ Len(stream) = n + 3 + 2 * m
                  /\ \A k \in 1..m : /\ stream[n + 1 + 2 * k].op = "KEY"
                                     /\ stream[n + 2 + 2 * k].op = "VALUE"
                  /\ stream[Len(stream)].op = "STOP"

\* pickle.load(f) on a well-formed stream: the pair it rebuilds.
PickleLoad(stream) ==
    LET n == stream[1].arg
        m == stream[n + 2].arg
        keys == {stream[n + 1 + 2 * k].arg : k \in 1..m}
    IN  [sentences |-> [k \in 1..n |-> stream[k + 1].arg],
         word_index |-> [key \in keys |->
             stream[(CHOOSE k \in 1..m : stream[n + 1 + 2 * k].arg = key) * 2 + n + 2].arg]]

\* No file at CACHE_FILE.
NoFile == [exists |-> FALSE, gzip |-> FALSE, data |-> <<>>]

\* save_cache: what gzip.open(CACHE_FILE, "wb") and pickle.dump leave on disk.
save_cache(sys) == [exists |-> TRUE, gzip |-> TRUE, data |-> PickleDump(sys)]

\* load_cache raises: the file is no gzip file, or its stream does not unpickle.
LoadRaises(file) == ~file.gzip \/ ~WellFormed(file.data)

\* A load_cache that adds what the file holds to what the system holds.
load_cache_merging(sys, file) ==
    LET loaded == PickleLoad(file.data)
        keys == DOMAIN sys.word_index \cup DOMAIN loaded.word_index
    IN  [sentences |-> sys.sentences \o loaded.sentences,
         word_index |-> [key \in keys |->
             Lookup(sys.word_index, key) \o Lookup(loaded.word_index, key)]]

\* load_cache: self.sentences, self.word_index = pickle.load(f).
load_cache(sys, file) == PickleLoad(file.data)

\* A file that is not gzip data, and a gzip file whose stream is cut short.
CorruptFiles ==
    {[exists |-> TRUE, gzip |-> FALSE, data |-> <<>>],
     [exists |-> TRUE, gzip |-> TRUE, data |-> <<[op |-> "LIST", arg |-> 0]>>]}

\* ------------------------------------------------------------------------
\* The inputs of the model
\* ------------------------------------------------------------------------

\* The files that may lie under the root folder, with their lines.
File1 == [dirpath |-> "root", fname |-> <<"a", ".", "t", "x", "t">>,
          lines |-> << <<"a", "b">>, <<"A", "b">>, <<" ", "a", " ", "a">>, <<"b">> >>]
File2 == [dirpath |-> "root/sub", fname |-> <<"b", ".", "T", "X", "T">>,
          lines |-> << <<"a", "b", "c", ",", "a">>, <<" ">>, <<"a", "b">>,
                       <<"a", "b", "a", "b">> >>]
File3 == [dirpath |-> "root", fname |-> <<"c", ".", "c", "s", "v">>,
          lines |-> << <<"a", "b">> >>]

FileSet == {File1, File2, File3}

\* How reading a file may end: without an exception, with one raised by
\* open(), or with one raised when line `at` (0-based) is fetched.
Errors(file) ==
    IF ~IsTextFile(file.fname) THEN {[kind |-> "ok", at |-> 0]}
    ELSE {[kind |-> "ok", at |-> 0], [kind |-> "open", at |-> 0]}
         \cup {[kind |-> "read", at |-> i] : i \in 0..(Len(file.lines) - 1)}

Entries ==
    UNION {{[dirpath |-> file.dirpath, fname |-> file.fname,
             lines |-> file.lines, error |-> e] : e \in Errors(file)} : file \in FileSet}

\* What os.walk may yield: at most MaxFiles files, each path once.
Folders ==
    UNION {{es \in [1..n -> Entries] :
              \A i, j \in 1..n :
                 i # j => FullPath(es[i].dirpath, es[i].fname)
                          # FullPath(es[j].dirpath, es[j].fname)} : n \in 0..MaxFiles}

\* The lines the user may type; "#" resets the buffer.
UserInputs ==
    {<<"a">>, <<"a", ",", "b">>, <<" ", "c">>, <<"c", "a">>, <<"A", "b", "a">>, <<",">>}

\* The orders in which the interpreter may yield the elements of a set.
Orders ==
    {[lengths |-> p, reversed |-> r] :
        p \in {<<0, 1, -1>>, <<0, -1, 1>>, <<1, 0, -1>>,
               <<1, -1, 0>>, <<-1, 0, 1>>, <<-1, 1, 0>>},
        r \in BOOLEAN}

\* ------------------------------------------------------------------------
\* The state
\* ------------------------------------------------------------------------

VARIABLES
    argv,         \* sys.argv[1:]: <<>> or <<"root">>
    cache_file,   \* the file at CACHE_FILE
    pc,           \* where the process is: init, built, serve, exit, error, eof
    acs,          \* the AutoCompleteSystem of main
    buffer,       \* main's buffer
    call,         \* the last call of get_best_k_completions: its locals and result
    order,        \* the interpreter's set iteration order
    folder,       \* what os.walk yielded to the build, until its result is saved
    trace,        \* build, save, load, query: what this process has completed
    had_cache,    \* os.path.exists(CACHE_FILE) when this process started
    snapshot,     \* the system save_cache last wrote
    new_acs,      \* a second AutoCompleteSystem (SpecCache)
    last_op,      \* the last method called, and on which system (SpecCache)
    m_prefix,     \* single_edit_match_info's arguments (SpecMatch)
    m_candidate,
    m_info        \* whether it was called, and what it returned (SpecMatch)

vars == <<argv, cache_file, pc, acs, buffer, call, order, folder, trace, had_cache,
          snapshot, new_acs, last_op, m_prefix, m_candidate, m_info>>

mainVars == <<argv, cache_file, pc, acs, buffer, call, order, folder, trace,
             had_cache, snapshot>>
cacheVars == <<new_acs, last_op>>
matchVars == <<m_prefix, m_candidate, m_info>>

\* No call of get_best_k_completions yet.
NoCall ==
    [prefix |-> <<>>, prefix_norm |-> <<>>, candidate_idxs |-> <<>>,
     results |-> <<>>, consulted |-> {}, returned |-> <<>>]

\* A call of get_best_k_completions(prefix) on sys.
Call(sys, prefix, ord) ==
    LET r == get_best_k_completions(sys, prefix, ord)
    IN  [prefix |-> prefix, prefix_norm |-> r.prefix_norm,
         candidate_idxs |-> r.candidate_idxs, results |-> r.results,
         consulted |-> r.consulted, returned |-> r.returned]

\* No method called yet (SpecCache).
NoOp == [op |-> "none", target |-> "none", was |-> NewSystem]

\* single_edit_match_info not called yet (SpecMatch).
NotCalled == [called |-> FALSE, result |-> None]

Log(tr, event) ==
    IF \E n \in 1..Len(tr) : tr[n] = event THEN tr ELSE Append(tr, event)

\* ------------------------------------------------------------------------
\* main: initialize_autocomplete_system, then the input loop
\* ------------------------------------------------------------------------

Init ==
    /\ argv \in {<<>>, <<"root">>}
    /\ cache_file \in {NoFile} \cup CorruptFiles
    /\ pc = "init"
    /\ acs = NewSystem
    /\ buffer = <<>>
    /\ call = NoCall
    /\ order \in Orders
    /\ folder = <<>>
    /\ trace = <<>>
    /\ had_cache = cache_file.exists
    /\ snapshot = NewSystem
    /\ new_acs = NewSystem
    /\ last_op = NoOp
    /\ m_prefix = <<>>
    /\ m_candidate = <<>>
    /\ m_info = NotCalled

\* No cache file and no folder argument: usage message, sys.exit(1).
Usage ==
    /\ pc = "init"
    /\ ~cache_file.exists
    /\ Len(argv) < 1
    /\ pc' = "exit"
    /\ UNCHANGED <<argv, cache_file, acs, buffer, call, order, folder, trace, had_cache, snapshot>>
    /\ UNCHANGED <<cacheVars, matchVars>>

\* No cache file: acs.build_from_folder(folder).
Build ==
    /\ pc = "init"
    /\ ~cache_file.exists
    /\ Len(argv) >= 1
    /\ \E entries \in Folders :
          /\ folder' = entries
          /\ acs' = build_from_folder(acs, entries)
    /\ pc' = "built"
    /\ trace' = Log(trace, "build")
    /\ UNCHANGED <<argv, cache_file, buffer, call, order, had_cache, snapshot>>
    /\ UNCHANGED <<cacheVars, matchVars>>

\* An initialization that returns after the build without writing the cache.
SaveCacheSkipped ==
    /\ pc = "built"
    /\ snapshot' = acs
    /\ pc' = "serve"
    /\ trace' = Log(trace, "save")
    /\ folder' = <<>>
    /\ UNCHANGED <<argv, cache_file, acs, buffer, call, order, had_cache>>
    /\ UNCHANGED <<cacheVars, matchVars>>

\* acs.save_cache(), and initialize_autocomplete_system returns.
SaveCache ==
    /\ pc = "built"
    /\ cache_file' = save_cache(acs)
    /\ snapshot' = acs
    /\ pc' = "serve"
    /\ trace' = Log(trace, "save")
    /\ folder' = <<>>
    /\ UNCHANGED <<argv, acs, buffer, call, order, had_cache>>
    /\ UNCHANGED <<cacheVars, matchVars>>

\* A cache file: acs.load_cache(), and initialize_autocomplete_system returns.
LoadCache ==
    /\ pc = "init"
    /\ cache_file.exists
    /\ ~LoadRaises(cache_file)
    /\ acs' = load_cache(acs, cache_file)
    /\ pc' = "serve"
    /\ trace' = Log(trace, "load")
    /\ UNCHANGED <<argv, cache_file, buffer, call, order, folder, had_cache, snapshot>>
    /\ UNCHANGED <<cacheVars, matchVars>>

\* A cache file load_cache cannot read: the exception is caught nowhere.
LoadCacheRaises ==
    /\ pc = "init"
    /\ cache_file.exists
    /\ LoadRaises(cache_file)
    /\ pc' = "error"
    /\ UNCHANGED <<argv, cache_file, acs, buffer, call, order, folder, trace, had_cache, snapshot>>
    /\ UNCHANGED <<cacheVars, matchVars>>

\* user_in == "#": the buffer is reset.
ResetBuffer ==
    /\ pc = "serve"
    /\ buffer' = <<>>
    /\ UNCHANGED <<argv, cache_file, pc, acs, call, order, folder, trace, had_cache, snapshot>>
    /\ UNCHANGED <<cacheVars, matchVars>>

\* buffer += (" " if buffer and not user_in.startswith(" ") else "") + user_in
Extend(buf, user_in) ==
    buf \o (IF buf # <<>> /\ ~(user_in # <<>> /\ Head(user_in) = " ")
            THEN <<" ">> ELSE <<>>) \o user_in

\* Any other line: it is added to the buffer, and the completions of the
\* buffer are computed and printed.
Query ==
    /\ pc = "serve"
    /\ \E user_in \in UserInputs :
          /\ Len(Extend(buffer, user_in)) <= MaxBuffer
          /\ buffer' = Extend(buffer, user_in)
          /\ call' = Call(acs, Extend(buffer, user_in), order)
    /\ trace' = Log(trace, "query")
    /\ UNCHANGED <<argv, cache_file, pc, acs, order, folder, had_cache, snapshot>>
    /\ UNCHANGED <<cacheVars, matchVars>>

\* The input ends: input() raises EOFError and the process ends, and with
\* it the system, the buffer and the completions it held.
EndOfInput ==
    /\ pc = "serve"
    /\ pc' = "eof"
    /\ acs' = NewSystem
    /\ buffer' = <<>>
    /\ call' = NoCall
    /\ UNCHANGED <<argv, cache_file, order, folder, trace, had_cache, snapshot>>
    /\ UNCHANGED <<cacheVars, matchVars>>

\* main is run again: a new process, with the cache file the last one left.
RunAgain ==
    /\ pc \in {"exit", "error", "eof"}
    /\ pc' = "init"
    /\ argv' \in {<<>>, <<"root">>}
    /\ acs' = NewSystem
    /\ buffer' = <<>>
    /\ call' = NoCall
    /\ folder' = <<>>
    /\ trace' = <<>>
    /\ had_cache' = cache_file.exists
    /\ UNCHANGED <<cache_file, order, snapshot>>
    /\ UNCHANGED <<cacheVars, matchVars>>

Next ==
    \/ Usage
    \/ Build
    \/ SaveCache
    \/ LoadCache
    \/ LoadCacheRaises
    \/ ResetBuffer
    \/ Query
    \/ EndOfInput
    \/ RunAgain

Spec == Init /\ [][Next]_vars

\* ------------------------------------------------------------------------
\* SpecCache: build_from_folder, save_cache and load_cache called on two
\* systems in any order, as the tests of the cache do
\* ------------------------------------------------------------------------

System(target) == IF target = "acs" THEN acs ELSE new_acs

InitCache ==
    /\ argv = <<>>
    /\ cache_file \in {NoFile} \cup CorruptFiles
    /\ pc = "test"
    /\ acs = NewSystem
    /\ buffer = <<>>
    /\ call = NoCall
    /\ order = [lengths |-> <<0, 1, -1>>, reversed |-> FALSE]
    /\ folder = <<>>
    /\ trace = <<>>
    /\ had_cache = cache_file.exists
    /\ snapshot = NewSystem
    /\ new_acs = NewSystem
    /\ last_op = NoOp
    /\ m_prefix = <<>>
    /\ m_candidate = <<>>
    /\ m_info = NotCalled

\* target.build_from_folder(folder), on a system that holds no sentence yet.
CacheBuild(target) ==
    /\ System(target).sentences = <<>>
    /\ \E entries \in {es \in Folders : Len(es) <= 1} :
          /\ target = "acs" => /\ acs' = build_from_folder(acs, entries)
                               /\ new_acs' = new_acs
          /\ target # "acs" => /\ new_acs' = build_from_folder(new_acs, entries)
                               /\ acs' = acs
    /\ last_op' = [op |-> "build", target |-> target, was |-> System(target)]
    /\ UNCHANGED <<argv, cache_file, pc, buffer, call, order, folder, trace, had_cache, snapshot>>
    /\ UNCHANGED matchVars

\* target.save_cache()
CacheSave(target) ==
    /\ cache_file' = save_cache(System(target))
    /\ snapshot' = System(target)
    /\ last_op' = [op |-> "save", target |-> target, was |-> System(target)]
    /\ UNCHANGED <<argv, pc, acs, buffer, call, order, folder, trace, had_cache, new_acs>>
    /\ UNCHANGED matchVars

\* target.load_cache(), when it does not raise.
CacheLoad(target) ==
    /\ cache_file.exists
    /\ ~LoadRaises(cache_file)
    /\ target = "acs" => /\ acs' = load_cache(acs, cache_file)
                         /\ new_acs' = new_acs
    /\ target # "acs" => /\ new_acs' = load_cache(new_acs, cache_file)
                         /\ acs' = acs
    /\ last_op' = [op |-> "load", target |-> target, was |-> System(target)]
    /\ UNCHANGED <<argv, cache_file, pc, buffer, call, order, folder, trace, had_cache, snapshot>>
    /\ UNCHANGED matchVars

\* target.load_cache() raises: the system keeps what it held.
CacheLoadRaises(target) ==
    /\ cache_file.exists
    /\ LoadRaises(cache_file)
    /\ last_op' = [op |-> "load raised", target |-> target, was |-> System(target)]
    /\ UNCHANGED <<argv, cache_file, pc, acs, buffer, call, order, folder, trace,
                   had_cache, snapshot, new_acs>>
    /\ UNCHANGED matchVars

NextCache ==
    \E target \in {"acs", "new_acs"} :
        \/ CacheBuild(target)
        \/ CacheSave(target)
        \/ CacheLoad(target)
        \/ CacheLoadRaises(target)

SpecCache == InitCache /\ [][NextCache]_vars

\* ------------------------------------------------------------------------
\* SpecMatch: single_edit_match_info on every pair of short strings
\* ------------------------------------------------------------------------

\* The strings of at most n characters over a and b.
Strings(n) == UNION {[1..k -> {"a", "b"}] : k \in 0..n}

InitMatch ==
    /\ argv = <<>>
    /\ cache_file = NoFile
    /\ pc = "match"
    /\ acs = NewSystem
    /\ buffer = <<>>
    /\ call = NoCall
    /\ order = [lengths |-> <<0, 1, -1>>, reversed |-> FALSE]
    /\ folder = <<>>
    /\ trace = <<>>
    /\ had_cache = cache_file.exists
    /\ snapshot = NewSystem
    /\ new_acs = NewSystem
    /\ last_op = NoOp
    /\ m_prefix \in Strings(MaxStr)
    /\ m_candidate \in Strings(MaxStr)
    /\ m_info = NotCalled

Match ==
    /\ ~m_info.called
    /\ m_info' = [called |-> TRUE, result |-> single_edit_match_info(m_prefix, m_candidate)]
    /\ UNCHANGED <<m_prefix, m_candidate>>
    /\ UNCHANGED <<mainVars, cacheVars>>

NextMatch == Match

SpecMatch == InitMatch /\ [][NextMatch]_vars

\* ------------------------------------------------------------------------
\* The claims
\* ------------------------------------------------------------------------

\* The texts of a list of results.
Texts(rs) == {rs[n].completed_sentence : n \in 1..Len(rs)}

\* C1: the list get_best_k_completions returns has at most 5 entries, its
\* scores do not increase from one position to the next, and of two adjacent
\* entries of equal score the second one's lowercased text is not the smaller.
C1_AtMostFiveSorted ==
    LET r == call.returned
    IN  /\ Len(r) <= 5
        /\ \A i \in 1..(Len(r) - 1) :
              /\ r[i].score >= r[i + 1].score
              /\ r[i].score = r[i + 1].score =>
                    ~StrLess(Lower(r[i + 1].completed_sentence),
                             Lower(r[i].completed_sentence))

\* C1's case: more than 5 texts were scored and 5 are returned, some with
\* different scores, some with the same score and different lowercased texts.
C1_Witness ==
    LET r == call.returned
    IN  /\ Cardinality(Texts(call.results)) > 5
        /\ Len(r) = 5
        /\ \E i \in 1..4 : r[i].score > r[i + 1].score
        /\ \E i \in 1..4 : /\ r[i].score = r[i + 1].score
                           /\ StrLess(Lower(r[i].completed_sentence),
                                      Lower(r[i + 1].completed_sentence))

\* C2: no two entries returned have the same completed_sentence, each entry
\* returned is one of the scored results, and no scored result with the same
\* text has a higher score, or has the same score and was scored before it
\* (the sort is stable, so that one would come first in the sorted order).
C2_NoDuplicateText ==
    LET r == call.returned
        scored == call.results
    IN  /\ \A i, j \in 1..Len(r) :
              i # j => r[i].completed_sentence # r[j].completed_sentence
        /\ \A i \in 1..Len(r) :
              /\ \E n \in 1..Len(scored) : scored[n] = r[i]
              /\ \A n \in 1..Len(scored) :
                    scored[n].completed_sentence = r[i].completed_sentence =>
                       /\ scored[n].score <= r[i].score
                       /\ scored[n].score = r[i].score =>
                             \E m \in 1..n : scored[m] = r[i]

\* C2's case: the same text was scored for two sentences, of different
\* files, and is returned once.
C2_Witness ==
    /\ \E m, n \in 1..Len(call.results) :
          /\ call.results[m].completed_sentence = call.results[n].completed_sentence
          /\ call.results[m].source_text # call.results[n].source_text
          /\ call.results[m].completed_sentence \in Texts(call.returned)
    /\ Len(call.returned) >= 2

\* The length of the longest common prefix of a and b.
LongestCommonPrefix(a, b) ==
    LET least == IF Len(a) < Len(b) THEN Len(a) ELSE Len(b)
    IN  CHOOSE k \in 0..least :
           /\ \A j \in 1..k : a[j] = b[j]
           /\ k = least \/ a[k + 1] # b[k + 1]

\* s without its p-th character.
RemoveAt(s, p) == [j \in 1..(Len(s) - 1) |-> IF j < p THEN s[j] ELSE s[j + 1]]

\* How the window w is one edit away from the query q: one character of q
\* replaced, one character added to q, one character of q removed; or none.
EditKind(q, w) ==
    IF Len(w) = Len(q) /\ Cardinality({j \in 1..Len(q) : q[j] # w[j]}) = 1
    THEN "substitution"
    ELSE IF Len(w) = Len(q) + 1 /\ \E p \in 1..Len(w) : RemoveAt(w, p) = q
    THEN "insertion"
    ELSE IF Len(w) + 1 = Len(q) /\ \E p \in 1..Len(q) : RemoveAt(q, p) = w
    THEN "deletion"
    ELSE "none"

\* The penalties as the claims state them.
ClaimedPenalty(kind, pos) ==
    IF kind = "substitution"
    THEN (CASE pos = 1 -> 5 [] pos = 2 -> 4 [] pos = 3 -> 3 [] pos = 4 -> 2
            [] pos = 5 -> 1 [] OTHER -> 1)
    ELSE (CASE pos = 1 -> 10 [] pos = 2 -> 8 [] pos = 3 -> 6 [] pos = 4 -> 4
            [] pos = 5 -> 2 [] OTHER -> 2)

\* q is a contiguous substring of text.
IsSubstring(q, text) ==
    \E start \in 0..(Len(text) - Len(q)) : \A j \in 1..Len(q) : text[start + j] = q[j]

\* The results scored for the sentence of id idx.
ResultsOf(idx) ==
    {m \in 1..Len(call.results) :
        /\ call.results[m].completed_sentence = acs.sentences[idx + 1][1]
        /\ call.results[m].source_text = acs.sentences[idx + 1][2]
        /\ call.results[m].offset = acs.sentences[idx + 1][3]}

\* The windows of text that are one edit away from q, as <<k, start>>: the
\* window of the k-th length tried, starting behind `start` characters.
MatchingWindows(q, text) ==
    {w \in (1..3) \X (0..Len(text)) :
        LET L == Len(q) + order.lengths[w[1]]
        IN  /\ L >= 1
            /\ w[2] + L <= Len(text)
            /\ EditKind(q, Slice(text, w[2], w[2] + L)) # "none"}

\* The instance of C3: the line "To be or not to be, that is the question"
\* scores 10 for "to be" and 8 for "to pe", whatever the interpreter's order.
C3_Instance ==
    LET line == <<"T", "o", " ", "b", "e", " ", "o", "r", " ", "n", "o", "t", " ",
                  "t", "o", " ", "b", "e", ",", " ", "t", "h", "a", "t", " ",
                  "i", "s", " ", "t", "h", "e", " ",
                  "q", "u", "e", "s", "t", "i", "o", "n">>
        sys == ProcessLine(NewSystem, line, FullPath("root", <<"t", ".", "t", "x", "t">>), 0)
    IN  \A o \in Orders :
           /\ LET r == get_best_k_completions(sys, <<"t", "o", " ", "b", "e">>, o).returned
              IN  Len(r) = 1 /\ r[1].completed_sentence = line /\ r[1].score = 10
           /\ LET r == get_best_k_completions(sys, <<"t", "o", " ", "p", "e">>, o).returned
              IN  Len(r) = 1 /\ r[1].completed_sentence = line /\ r[1].score = 8

\* C3: for a query whose normalized text q has n >= 1 characters, a
\* candidate sentence whose normalized text contains q gets exactly one
\* result, of score 2n, and the matcher is not called for it; any other
\* candidate with a window of n-1, n or n+1 characters one edit away from q
\* gets exactly one result, of score 2n minus the penalty of the kind and
\* position of the edit of the first such window in scanning order (the
\* position being one more than the length of the common prefix of q and
\* the window); any other candidate gets no result. The instance speaks of
\* no state: it is evaluated where the process has left with the usage message.
C3_ScoreOfCandidate ==
    /\ pc = "exit" => C3_Instance
    /\ call.prefix_norm # <<>> =>
        \A c \in 1..Len(call.candidate_idxs) :
            LET idx == call.candidate_idxs[c]
                q == call.prefix_norm
                n == Len(q)
                text == normalize_text(acs.sentences[idx + 1][1])
                hits == ResultsOf(idx)
                matching == MatchingWindows(q, text)
            IN  IF IsSubstring(q, text)
                THEN /\ Cardinality(hits) = 1
                     /\ \A m \in hits : call.results[m].score = 2 * n
                     /\ idx \notin call.consulted
                ELSE IF matching # {}
                THEN LET first == CHOOSE w \in matching : \A o \in matching :
                                     w[1] < o[1] \/ (w[1] = o[1] /\ w[2] <= o[2])
                         L == n + order.lengths[first[1]]
                         window == Slice(text, first[2], first[2] + L)
                     IN  /\ Cardinality(hits) = 1
                         /\ \A m \in hits : call.results[m].score =
                               2 * n - ClaimedPenalty(EditKind(q, window),
                                                      LongestCommonPrefix(q, window) + 1)
                ELSE hits = {}

\* C3's case: one call scores a candidate that contains the query, a
\* candidate one insertion or deletion away from it, and leaves a candidate
\* without a result.
C3_Witness ==
    /\ call.prefix_norm # <<>>
    /\ \E c1, c2, c3 \in 1..Len(call.candidate_idxs) :
          LET q == call.prefix_norm
              Text(c) == normalize_text(acs.sentences[call.candidate_idxs[c] + 1][1])
          IN  /\ IsSubstring(q, Text(c1))
              /\ ResultsOf(call.candidate_idxs[c1]) # {}
              /\ ~IsSubstring(q, Text(c2))
              /\ \E m \in ResultsOf(call.candidate_idxs[c2]) :
                    call.results[m].score \in {2 * Len(q) - 10, 2 * Len(q) - 8}
              /\ call.candidate_idxs[c2] \in call.consulted
              /\ ResultsOf(call.candidate_idxs[c3]) = {}

\* Python's s[k:] for 0 <= k.
Suffix(s, k) == [j \in 1..(Len(s) - k) |-> s[k + j]]

\* The instances of C4.
C4_Instances ==
    /\ single_edit_match_info(<<"a", "b", "c">>, <<"x", "b", "c">>) = <<"substitution", 1>>
    /\ single_edit_match_info(<<"a", "b", "c">>, <<"a", "b", "x">>) = <<"substitution", 3>>
    /\ single_edit_match_info(<<"a", "b", "c">>, <<"x", "y", "z">>) = None
    /\ single_edit_match_info(<<"a">>, <<"a", "b", "c", "d", "e">>) = None

\* C4: single_edit_match_info(a, b) is exact iff a = b; no match when the
\* lengths differ by more than 1; for equal lengths, a substitution at the
\* only position that differs when there is exactly one, no match when there
\* are two or more; when b is one longer, an insertion at i + 1, i the length
\* of the longest common prefix, iff a[i:] = b[i+1:], no match otherwise;
\* when a is one longer, a deletion at i + 1 iff a[i+1:] = b[i:], no match
\* otherwise.
C4_SingleEditMatch ==
    m_info.called =>
        LET a == m_prefix
            b == m_candidate
            r == m_info.result
            i == LongestCommonPrefix(a, b)
            diffs == {j \in 1..Len(a) : j <= Len(b) /\ a[j] # b[j]}
        IN  /\ C4_Instances
            /\ (r = <<"exact", 0>>) <=> (a = b)
            /\ (Len(a) > Len(b) + 1 \/ Len(b) > Len(a) + 1) => r = None
            /\ (Len(a) = Len(b) /\ Cardinality(diffs) = 1) =>
                  \E p \in diffs : r = <<"substitution", p>>
            /\ (Len(a) = Len(b) /\ Cardinality(diffs) >= 2) => r = None
            /\ Len(b) = Len(a) + 1 =>
                  IF Suffix(a, i) = Suffix(b, i + 1)
                  THEN r = <<"insertion", i + 1>> ELSE r = None
            /\ Len(a) = Len(b) + 1 =>
                  IF Suffix(a, i + 1) = Suffix(b, i)
                  THEN r = <<"deletion", i + 1>> ELSE r = None

\* C4's case: an insertion found behind a common prefix of two characters.
C4_Witness ==
    /\ m_info.called
    /\ Len(m_candidate) = Len(m_prefix) + 1
    /\ LongestCommonPrefix(m_prefix, m_candidate) = 2
    /\ m_info.result = <<"insertion", 3>>

\* The anchor of a normalized query: its first word.
Anchor(q) ==
    LET spaces == {j \in 1..Len(q) : q[j] = " "}
    IN  IF spaces = {} THEN q
        ELSE SubSeq(q, 1, (CHOOSE j \in spaces : \A k \in spaces : j <= k) - 1)

\* The key the query is looked up under.
LookupKey(q) == IF Len(Anchor(q)) <= 2 THEN Anchor(q) ELSE SubSeq(Anchor(q), 1, 3)

\* The ids the index stores under key.
StoredUnder(key) ==
    IF key \in DOMAIN acs.word_index
    THEN {acs.word_index[key][n] : n \in 1..Len(acs.word_index[key])}
    ELSE {}

\* The instance of C5: the line "unique sentence here" is returned for "znique".
C5_Instance ==
    LET line == <<"u", "n", "i", "q", "u", "e", " ", "s", "e", "n", "t", "e", "n", "c", "e",
                  " ", "h", "e", "r", "e">>
        sys == ProcessLine(NewSystem, line, FullPath("root", <<"t", ".", "t", "x", "t">>), 0)
    IN  \A o \in Orders :
           LET r == get_best_k_completions(sys, <<"z", "n", "i", "q", "u", "e">>, o).returned
           IN  Len(r) = 1 /\ r[1].completed_sentence = line

\* C5: the candidates of a query that is not empty once normalized are the
\* ids stored under the lookup key (the anchor when it has 1 or 2
\* characters, else its first 3) when there is one at least, and every id of
\* the corpus otherwise; and when the key has none, a sentence with a window
\* one edit away from the query is returned, unless 5 results are. The
\* instance speaks of no state: it is evaluated where the process has left
\* with the usage message.
C5_CandidateSet ==
    /\ pc = "exit" => C5_Instance
    /\ call.prefix_norm # <<>> =>
        LET q == call.prefix_norm
            stored == StoredUnder(LookupKey(q))
            all == 0..(Len(acs.sentences) - 1)
            candidates == {call.candidate_idxs[n] : n \in 1..Len(call.candidate_idxs)}
        IN  /\ candidates = IF stored # {} THEN stored ELSE all
            /\ Len(call.candidate_idxs) = Cardinality(candidates)
            /\ stored = {} =>
                  \A idx \in all :
                     MatchingWindows(q, normalize_text(acs.sentences[idx + 1][1])) # {} =>
                        \/ acs.sentences[idx + 1][1] \in Texts(call.returned)
                        \/ Len(call.returned) = 5

\* C5's case: the first three characters of the anchor are no key of the
\* index, and a sentence one edit away from the query is returned.
C5_Witness ==
    /\ call.prefix_norm # <<>>
    /\ Len(Anchor(call.prefix_norm)) >= 3
    /\ StoredUnder(LookupKey(call.prefix_norm)) = {}
    /\ DOMAIN acs.word_index # {}
    /\ \E idx \in 0..(Len(acs.sentences) - 1) :
          /\ MatchingWindows(call.prefix_norm,
                             normalize_text(acs.sentences[idx + 1][1])) # {}
          /\ acs.sentences[idx + 1][1] \in Texts(call.returned)

\* C6: once load_cache has returned, the system it was called on holds the
\* sentences, in their order, and the index of the system save_cache wrote,
\* whatever it held before, and get_best_k_completions returns on it what it
\* returns on the system that was saved, for every query.
C6_RoundTrip ==
    last_op.op = "load" =>
        LET loaded == System(last_op.target)
        IN  /\ loaded.sentences = snapshot.sentences
            /\ loaded.word_index = snapshot.word_index
            /\ \A user_in \in UserInputs : \A o \in Orders :
                  get_best_k_completions(loaded, user_in, o).returned
                  = get_best_k_completions(snapshot, user_in, o).returned

\* C6's case: a system built from one file is saved, and loaded into a
\* system that held the sentences of another file.
C6_Witness ==
    /\ last_op.op = "load"
    /\ snapshot.sentences # <<>>
    /\ last_op.was.sentences # <<>>
    /\ last_op.was.sentences # snapshot.sentences
    /\ DOMAIN last_op.was.word_index # DOMAIN snapshot.word_index
    /\ System(last_op.target) = snapshot
    /\ \E user_in \in UserInputs :
          get_best_k_completions(snapshot, user_in, order).returned # <<>>

\* C7: a process that found no cache file and was given a folder has built
\* and then saved before it serves, and the cache file then exists and holds
\* what was built; a process that found a cache file has loaded it and has
\* built nothing; a process that found no cache file and was given no folder
\* leaves without a query; and no query is served before the build and save,
\* or the load, are done.
C7_InitializationOrder ==
    /\ (~had_cache /\ pc \in {"serve", "eof"}) =>
          /\ Len(argv) >= 1
          /\ Len(trace) >= 2 /\ trace[1] = "build" /\ trace[2] = "save"
          /\ cache_file.exists
          /\ ~LoadRaises(cache_file)
          /\ PickleLoad(cache_file.data) = snapshot
          /\ pc = "serve" => acs = snapshot
    /\ pc = "built" => ~had_cache /\ Len(argv) >= 1 /\ trace = <<"build">>
    /\ had_cache =>
          /\ \A n \in 1..Len(trace) : trace[n] \notin {"build", "save"}
          /\ pc \in {"serve", "eof"} => trace[1] = "load"
          /\ pc = "serve" => acs = PickleLoad(cache_file.data)
    /\ (~had_cache /\ Len(argv) < 1) =>
          /\ pc \in {"init", "exit"}
          /\ trace = <<>>
          /\ call = NoCall
    /\ (call # NoCall \/ \E n \in 1..Len(trace) : trace[n] = "query") =>
          \/ trace = <<"build", "save", "query">>
          \/ trace = <<"load", "query">>

\* C7's case: a process that found the cache file an earlier one had built
\* and saved serves a query on the loaded sentences.
C7_Witness ==
    /\ pc = "serve"
    /\ had_cache
    /\ trace = <<"load", "query">>
    /\ acs.sentences # <<>>
    /\ acs = snapshot
    /\ call.returned # <<>>

\* C8 as stated: a process given a folder that found a cache file
\* load_cache cannot read does not end on the exception; it has rebuilt the
\* corpus from the folder.
C8_FallbackToRebuild ==
    (had_cache /\ Len(argv) >= 1 /\ LoadRaises(cache_file) /\ pc # "init") =>
        /\ pc \in {"built", "serve", "eof"}
        /\ \E n \in 1..Len(trace) : trace[n] = "build"

\* The files of a folder that raised no exception.
WithoutWarned(entries) == SelectSeq(entries, LAMBDA e : ~Warned(e))

\* C9 as stated: the build leaves the system as it would be had the files
\* that raised an exception, at open() or at any line, not been there.
C9_FailedResourceSkipped ==
    pc = "built" => acs = build_from_folder(NewSystem, WithoutWarned(folder))

\* The words of a normalized text: its maximal runs of characters other
\* than the space, by first and last position.
WordsOf(text) ==
    {w \in (1..Len(text)) \X (1..Len(text)) :
        /\ w[1] <= w[2]
        /\ \A j \in w[1]..w[2] : text[j] # " "
        /\ w[1] = 1 \/ text[w[1] - 1] = " "
        /\ w[2] = Len(text) \/ text[w[2] + 1] = " "}

\* How often key occurs in text: as a whole word of 1 or 2 characters, or
\* as a window of 3 characters of a longer word.
Occurrences(key, text) ==
    Cardinality({w \in WordsOf(text) :
                    w[2] - w[1] + 1 <= 2 /\ SubSeq(text, w[1], w[2]) = key})
    + Cardinality({p \in WordsOf(text) \X (1..Len(text)) :
                    /\ p[1][2] - p[1][1] + 1 >= 3
                    /\ p[2] >= p[1][1] /\ p[2] + 2 <= p[1][2]
                    /\ SubSeq(text, p[2], p[2] + 2) = key})

\* The strings of 1 to 3 characters that occur in text.
SubstringsUpTo3(text) ==
    {SubSeq(text, p[1], p[2]) :
        p \in {q \in (1..Len(text)) \X (1..Len(text)) : q[1] <= q[2] /\ q[2] <= q[1] + 2}}

\* C10: when build_from_folder has returned, every key of the index has 1, 2
\* or 3 characters; every id stored is the position of a sentence; and an id
\* is stored under a key once for each occurrence of the key as a whole word
\* of 1 or 2 characters in the normalized text of its sentence, plus once for
\* each window of 3 characters equal to the key in a word of 3 characters
\* and more.
C10_IndexInvariant ==
    pc = "built" =>
    LET index == acs.word_index
        ids == 0..(Len(acs.sentences) - 1)
        text(i) == normalize_text(acs.sentences[i + 1][1])
        keys == DOMAIN index \cup UNION {SubstringsUpTo3(text(i)) : i \in ids}
    IN  /\ \A key \in DOMAIN index :
              /\ Len(key) \in {1, 2, 3}
              /\ \A n \in 1..Len(index[key]) : index[key][n] \in ids
        /\ \A key \in keys : \A i \in ids :
              Cardinality({n \in 1..Len(Lookup(index, key)) : Lookup(index, key)[n] = i})
              = Occurrences(key, text(i))

\* C10's case: a build has stored words of 1 and 2 characters whole, one id
\* twice under one key, and the two windows of a word of 4 characters.
C10_Witness ==
    /\ pc = "built"
    /\ \E key \in DOMAIN acs.word_index :
          /\ Len(key) = 1
          /\ \E n, m \in 1..Len(acs.word_index[key]) :
                n # m /\ acs.word_index[key][n] = acs.word_index[key][m]
    /\ \E key \in DOMAIN acs.word_index : Len(key) = 2
    /\ {<<"a", "b", "a">>, <<"b", "a", "b">>} \subseteq DOMAIN acs.word_index

\* C11 as stated: every score of every list get_best_k_completions returns
\* is non-negative.
C11_NonNegative ==
    \A n \in 1..Len(call.returned) : call.returned[n].score >= 0

\* Queries of 5 and 6 characters over the line "abcd e": the deletion at
\* position 1 scores 0 and 2, the substitution at position 1 scores 7.
C11_Instance ==
    LET line == <<"a", "b", "c", "d", " ", "e">>
        sys == ProcessLine(NewSystem, line, FullPath("root", <<"t", ".", "t", "x", "t">>), 0)
        Scores(prefix, o) ==
            LET r == get_best_k_completions(sys, prefix, o).returned
            IN  [n \in 1..Len(r) |-> r[n].score]
    IN  \A o \in Orders :
           /\ Scores(<<"x", "a", "b", "c", "d">>, o) = <<0>>
           /\ Scores(<<"x", "b", "c", "d", " ", "e">>, o) \in {<<7>>, <<2>>}

\* C11, amended: every score of every result, returned or not, of a query of
\* n characters once normalized is at least 2n - 10 and at most 2n, hence
\* non-negative when n is 5 or more. The instance speaks of no state: it is
\* evaluated where the process has left with the usage message.
C11_ScoreAtLeast ==
    /\ pc = "exit" => C11_Instance
    /\ \A rs \in {call.results, call.returned} : \A n \in 1..Len(rs) :
          /\ rs[n].score >= 2 * Len(call.prefix_norm) - 10
          /\ rs[n].score <= 2 * Len(call.prefix_norm)
          /\ Len(call.prefix_norm) >= 5 => rs[n].score >= 0

\* C11's case: a returned score is negative, and is 2n - 10.
C11_Witness ==
    \E n \in 1..Len(call.returned) :
       /\ call.returned[n].score < 0
       /\ call.returned[n].score = 2 * Len(call.prefix_norm) - 10

\* C12 as stated: the list get_best_k_completions returns for a corpus, an
\* index and a query is the one it returns under every order in which the
\* candidate ids may be processed and the three window lengths tried.
C12_OrderIndependent ==
    call.prefix_norm # <<>> =>
        \A o \in Orders :
            get_best_k_completions(acs, call.prefix, o).returned = call.returned

\* The ids of the candidates of the last call.
CandidatesOfCall == {call.candidate_idxs[n] : n \in 1..Len(call.candidate_idxs)}

\* The sentence of id idx, which contains the query, is a candidate, has one
\* result, of score 2n, and is returned unless five other texts of that
\* score are.
ContainmentFound(idx) ==
    LET n == Len(call.prefix_norm)
        sentence == acs.sentences[idx + 1][1]
    IN  /\ idx \in CandidatesOfCall
        /\ Cardinality(ResultsOf(idx)) = 1
        /\ \A m \in ResultsOf(idx) : call.results[m].score = 2 * n
        /\ \/ sentence \in Texts(call.returned)
           \/ /\ Len(call.returned) = 5
              /\ \A m \in 1..5 : call.returned[m].score = 2 * n

\* C13 as stated: every sentence whose normalized text contains the
\* normalized query is a candidate, is scored 2n, and is returned unless five
\* texts rank ahead of it.
C13_ContainmentComplete ==
    call.prefix_norm # <<>> =>
        \A idx \in 0..(Len(acs.sentences) - 1) :
            IsSubstring(call.prefix_norm, normalize_text(acs.sentences[idx + 1][1]))
                => ContainmentFound(idx)

\* word is one of the words of the normalized text.
HasWord(word, text) ==
    \E w \in WordsOf(text) : SubSeq(text, w[1], w[2]) = word

\* The lookup of the query's first word reaches the sentence of id idx that
\* contains the query: the word has 3 characters or more, or no id is stored
\* under it, or it is a whole word of the sentence.
ReachedByLookup(idx) ==
    LET first_word == Anchor(call.prefix_norm)
    IN  \/ Len(first_word) >= 3
        \/ StoredUnder(first_word) = {}
        \/ HasWord(first_word, normalize_text(acs.sentences[idx + 1][1]))

\* C13, amended: a sentence whose normalized text contains the normalized
\* query is a candidate, scored 2n and returned unless five texts rank ahead
\* of it, when the first word of the query has 3 characters or more, or is
\* no key of the index, or is a whole word of the sentence; when the first
\* word has 1 or 2 characters, is a key of the index and is no whole word of
\* the sentence, the sentence is no candidate and is not scored.
C13_ContainmentOfReached ==
    call.prefix_norm # <<>> =>
        \A idx \in 0..(Len(acs.sentences) - 1) :
            IsSubstring(call.prefix_norm, normalize_text(acs.sentences[idx + 1][1])) =>
                IF ReachedByLookup(idx) THEN ContainmentFound(idx)
                ELSE idx \notin CandidatesOfCall /\ ResultsOf(idx) = {}

\* C13's case: the first word of the query has 1 or 2 characters and is a
\* key of the index; a sentence that holds it as a word is returned with
\* score 2n, and a sentence that contains the query inside a longer word is
\* no candidate and is not returned.
C13_Witness ==
    /\ call.prefix_norm # <<>>
    /\ StoredUnder(Anchor(call.prefix_norm)) # {}
    /\ \E idx, other \in 0..(Len(acs.sentences) - 1) :
          /\ IsSubstring(call.prefix_norm, normalize_text(acs.sentences[idx + 1][1]))
          /\ ReachedByLookup(idx)
          /\ acs.sentences[idx + 1][1] \in Texts(call.returned)
          /\ IsSubstring(call.prefix_norm, normalize_text(acs.sentences[other + 1][1]))
          /\ ~ReachedByLookup(other)
          /\ acs.sentences[other + 1][1] \notin Texts(call.returned)

====
